---- MODULE Spec2Model ----
(***************************************************************************)
(* Model of moonraker_obico/webcam_stream.py: the WebcamStreamer           *)
(* supervisor (video_pipeline, ffmpeg_from_mjpeg, start_ffmpeg, restore),  *)
(* its two background threads (monitor_ffmpeg_process, watch_process_cpu)  *)
(* and the encoder processes it launches.                                  *)
(*                                                                         *)
(* Threads: one caller of video_pipeline ("main"), one caller of restore,  *)
(* one output monitor and one CPU watchdog per successful start_ffmpeg.    *)
(* A step is one access to shared state (an attribute load or store of     *)
(* self.ffmpeg_proc / self.shutting_down, or one call on a process).       *)
(***************************************************************************)
EXTENDS Integers, Sequences, FiniteSets, TLC

\* ---------------------------------------------------------------- bounds
MaxRuns == 1        \* calls of video_pipeline (each launches at most one process)
MaxRestores == 2    \* calls of restore
MaxLines == 1       \* stderr lines one output monitor reads
MaxCpuWarn == 1     \* CPU warning events posted in total

\* ------------------------------------------------------ program constants
None == 0                                   \* self.ffmpeg_proc = None
max_tries == 20                             \* backoff max_tries
ring_maxlen == 50                           \* deque(maxlen=50)
cpu_max == 80                               \* cpu_watch_dog(max=80)
Encoders == <<"h264_omx", "h264_v4l2m2m">>  \* candidates, in order

Pids == 1..(MaxRuns + 1)

\* inputs of the environment
CaptureErrors == {"capture_error", "not_a_valid_jpeg", "image_info_error"}
SucceedAts == {1, 2, max_tries, max_tries + 1}
Debians == {"fail", "garbage", "10", "11"}
TrialExits == {{}, {0}, {1}}   \* {}: the trial encode never exits
ImgInfos == {<<480, 270>>, <<1640, 1232>>}
Widths == {0, 1, 479, 480, 481, 959, 960, 961, 1279, 1280, 1281, 1640, 1920}
Heights == {0, 1, 269, 270, 271, 539, 540, 541, 719, 720, 721, 1080, 1232}
CpuSamples == {80, 81}
NoImg == <<0, 0>>
NoArgs == [fps |-> 0, bitrate |-> 0]

VARIABLES
  \* WebcamStreamer fields
  ffmpeg_proc,    \* self.ffmpeg_proc: None or the pid of a launched process
  shutting_down,  \* self.shutting_down
  FFMPEG,         \* module global FFMPEG
  \* platform and collaborators (fixed in a behaviour)
  pi,             \* pi_version() is truthy
  debian,         \* what cat /etc/debian_version gives
  succeedAt,      \* the call of get_webcam_resolution that first succeeds
  trialExit,      \* candidate -> the exit statuses its trial encode can end with
  runLimit,       \* how often the caller calls video_pipeline
  \* encoder processes
  proc,           \* pid -> "unborn" | "running" | "crashed" | "terminated"
  termCnt,        \* pid -> number of terminate() calls on it
  survived,       \* pid -> wait(timeout=10) raised TimeoutExpired for it
  restoreSeen,    \* pid -> a restore() call ran after the process was launched
  \* the caller of video_pipeline
  pc, runs, cur, err, vpResult, failEvents, tasks,
  encIdx, popened, exits, encoder,
  tries, img, is_pro, args,
  \* the caller of restore
  rpc, restores, rerr, quiet,
  overlapped,     \* a restore() call began while video_pipeline() was executing
  \* output monitors
  mpc, mh, meof, ring, hist, reports,
  \* CPU watchdogs
  wpc, wh, cpu_pct, cpuWarn

streamerVars == <<ffmpeg_proc, shutting_down, FFMPEG, pi, debian, succeedAt, trialExit,
                  runLimit>>
procVars == <<proc, termCnt, survived, restoreSeen>>
probeVars == <<encIdx, popened, exits, encoder, tries, img, is_pro, args>>
mainVars == <<pc, runs, cur, err, vpResult, failEvents, tasks>>
restoreVars == <<rpc, restores, rerr, quiet, overlapped>>
monVars == <<mpc, mh, meof, ring, hist, reports>>
dogVars == <<wpc, wh, cpu_pct, cpuWarn>>
vars == <<streamerVars, procVars, probeVars, mainVars, restoreVars, monVars, dogVars>>

\* ------------------------------------------------------------ pure helpers

\* bitrate_for_dim with strict comparisons at the breakpoints
bitrate_for_dim_Strict(img_w, img_h) ==
  LET dim == img_w * img_h IN
  IF dim < 480 * 270 THEN 400 * 1000
  ELSE IF dim < 960 * 540 THEN 1300 * 1000
  ELSE IF dim < 1280 * 720 THEN 2000 * 1000
  ELSE 3000 * 1000

\* bitrate_for_dim with the two middle rows of the table exchanged
bitrate_for_dim_Swapped(img_w, img_h) ==
  LET dim == img_w * img_h IN
  IF dim <= 480 * 270 THEN 400 * 1000
  ELSE IF dim <= 960 * 540 THEN 2000 * 1000
  ELSE IF dim <= 1280 * 720 THEN 1300 * 1000
  ELSE 3000 * 1000

\* bitrate_for_dim(img_w, img_h)
bitrate_for_dim(img_w, img_h) ==
  LET dim == img_w * img_h IN
  IF dim <= 480 * 270 THEN 400 * 1000
  ELSE IF dim <= 960 * 540 THEN 1300 * 1000
  ELSE IF dim <= 1280 * 720 THEN 2000 * 1000
  ELSE 3000 * 1000

\* int(a / b) of Python: true division, then truncation towards zero
PyIntDiv(a, b) ==
  IF a >= 0 THEN a \div b ELSE -((-a) \div b)

\* fps and bitrate of ffmpeg_from_mjpeg
StreamArgs(img_w, img_h, pro) ==
  LET bitrate == bitrate_for_dim(img_w, img_h) IN
  IF ~pro THEN [fps |-> 5, bitrate |-> PyIntDiv(bitrate, 4)]
  ELSE [fps |-> 25, bitrate |-> bitrate]

\* deque(maxlen=n).append(x)
DequeAppend(d, x, n) ==
  IF Len(d) < n THEN Append(d, x) ELSE Append(Tail(d), x)

\* the state restore() is responsible for
RestoreState == <<shutting_down, ffmpeg_proc, termCnt>>

\* -------------------------------------------------------------------- Init
InitStreamer ==
  /\ ffmpeg_proc = None
  /\ shutting_down = FALSE
  /\ FFMPEG = "ffmpeg"

InitRest ==
  /\ proc = [p \in Pids |-> "unborn"]
  /\ termCnt = [p \in Pids |-> 0]
  /\ survived = [p \in Pids |-> FALSE]
  /\ restoreSeen = [p \in Pids |-> FALSE]
  /\ runs = 0 /\ cur = None /\ err = "" /\ vpResult = "" /\ failEvents = 0 /\ tasks = 0
  /\ encIdx = 0 /\ popened = <<>> /\ exits = <<>> /\ encoder = ""
  /\ tries = 0
  /\ rpc = "idle" /\ restores = 0 /\ rerr = FALSE
  /\ quiet = FALSE /\ overlapped = FALSE
  /\ mpc = [p \in Pids |-> "off"]
  /\ mh = [p \in Pids |-> None]
  /\ meof = [p \in Pids |-> None]
  /\ ring = [p \in Pids |-> <<>>]
  /\ hist = [p \in Pids |-> <<>>]
  /\ reports = [p \in Pids |-> <<>>]
  /\ wpc = [p \in Pids |-> "off"]
  /\ wh = [p \in Pids |-> None]
  /\ cpu_pct = [p \in Pids |-> 0]
  /\ cpuWarn = 0

Init ==
  /\ InitStreamer
  /\ InitRest
  /\ pi \in BOOLEAN
  /\ debian \in Debians
  /\ succeedAt \in SucceedAts
  /\ trialExit \in [1..Len(Encoders) -> TrialExits]
  /\ runLimit = MaxRuns
  /\ pc = "idle"
  /\ img = NoImg /\ is_pro = FALSE /\ args = NoArgs

\* ------------------------------------------------- the video_pipeline thread
\* a step of the pipeline thread: a restore() call in progress is no longer
\* one that ran on its own
MainStep == quiet' = FALSE /\ UNCHANGED <<rpc, restores, rerr, overlapped>>

\* an exception leaves ffmpeg_from_mjpeg
Raise(e) == pc' = "raised" /\ err' = e

\* a gate that lets every platform through
NotOnPi_Never == FALSE

\* video_pipeline: if not pi_version()
NotOnPi == ~pi

\* video_pipeline: the platform gate
video_pipeline ==
  /\ pc = "idle"
  /\ runs < runLimit
  /\ runs' = runs + 1
  /\ IF NotOnPi THEN pc' = "vp_ret" /\ vpResult' = "returned"
            ELSE pc' = "fm131" /\ vpResult' = ""
  /\ MainStep
  /\ UNCHANGED <<streamerVars, procVars, probeVars, cur, err, failEvents, tasks,
                 monVars, dogVars>>

\* set_ffmpeg_if_needed: cat /etc/debian_version fails, or gives a version
\* that does not parse, or a major version below 11: FFMPEG is kept;
\* a major version of 11 or more: FFMPEG is the bundled binary
set_ffmpeg_if_needed ==
  /\ pc = "fm131"
  /\ FFMPEG' = IF debian = "11" THEN "bin/rpi_os.11/32bits/ffmpeg" ELSE FFMPEG
  /\ pc' = "enc126"
  /\ encIdx' = 1
  /\ MainStep
  /\ UNCHANGED <<ffmpeg_proc, shutting_down, pi, debian, succeedAt, trialExit, runLimit, procVars,
                 popened, exits, encoder, tries, img, is_pro, args,
                 runs, cur, err, vpResult, failEvents, tasks, monVars, dogVars>>

\* h264_encoder: Popen of the trial encode of candidate encIdx
h264_encoder_popen ==
  /\ pc = "enc126"
  /\ popened' = Append(popened, Encoders[encIdx])
  /\ pc' = "enc127"
  /\ MainStep
  /\ UNCHANGED <<streamerVars, procVars, encIdx, exits, encoder, tries,
                 img, is_pro, args, runs, cur, err, vpResult, failEvents, tasks, monVars, dogVars>>

\* a probe that takes a failed trial for a working encoder
TrialOk_Inverted(rc) == rc # 0

\* h264_encoder: if ffmpeg_test_proc.wait() == 0
TrialOk(rc) == rc = 0

\* h264_encoder: ffmpeg_test_proc.wait() returns rc (it has no timeout: a
\* trial that never exits keeps the thread here)
h264_encoder_wait ==
  /\ pc = "enc127"
  /\ \E rc \in trialExit[encIdx] :
       /\ exits' = Append(exits, rc)
       /\ IF TrialOk(rc)
            THEN /\ encoder' = Encoders[encIdx]
                 /\ pc' = "res114" /\ err' = err
                 /\ encIdx' = encIdx
            ELSE /\ encoder' = encoder
                 /\ IF encIdx < Len(Encoders)
                      THEN encIdx' = encIdx + 1 /\ pc' = "enc126" /\ err' = err
                      ELSE encIdx' = encIdx /\ Raise("no_h264_encoder")
  /\ MainStep
  /\ UNCHANGED <<streamerVars, procVars, popened, tries,
                 img, is_pro, args, runs, cur, vpResult, failEvents, tasks, monVars, dogVars>>

\* a retry policy that allows one call more
GiveUp_OneMore(n) == n > max_tries

\* the retry policy of backoff.on_exception(..., max_tries=20): give up when
\* the number of calls made reaches max_tries
GiveUp(n) == n >= max_tries

\* get_webcam_resolution: one call of the decorated function. The capture
\* collaborator fails before call number succeedAt and succeeds on it.
get_webcam_resolution ==
  /\ pc = "res114"
  /\ tries' = tries + 1
  /\ IF tries + 1 = succeedAt
       THEN /\ img' \in ImgInfos
            /\ pc' = "fm138" /\ err' = err
       ELSE /\ img' = img
            /\ \E e \in CaptureErrors :
                 IF GiveUp(tries + 1) THEN Raise(e)
                                      ELSE pc' = "res114" /\ err' = err
  /\ MainStep
  /\ UNCHANGED <<streamerVars, procVars, encIdx, popened, exits, encoder,
                 is_pro, args, runs, cur, vpResult, failEvents, tasks, monVars, dogVars>>

\* ffmpeg_from_mjpeg: stream_url = webcam_config.stream_url; raise if unset
check_stream_url ==
  /\ pc = "fm138"
  /\ \E stream_url \in BOOLEAN :
       IF ~stream_url THEN Raise("stream_url_not_configured")
                      ELSE pc' = "fm144" /\ err' = err
  /\ MainStep
  /\ UNCHANGED <<streamerVars, procVars, probeVars, runs, cur, vpResult, failEvents, tasks,
                 monVars, dogVars>>

\* ffmpeg_from_mjpeg: bitrate and fps from the resolution and the tier
select_policy ==
  /\ pc = "fm144"
  /\ \E pro \in BOOLEAN :
       /\ is_pro' = pro
       /\ args' = StreamArgs(img[1], img[2], pro)
  /\ pc' = "sf157"
  /\ MainStep
  /\ UNCHANGED <<streamerVars, procVars, encIdx, popened, exits, encoder,
                 tries, img, runs, cur, err, vpResult, failEvents, tasks,
                 monVars, dogVars>>

\* --------------------------------------------------------------- start_ffmpeg
\* a start_ffmpeg that clears shutting_down when it launches the process
start_ffmpeg_popen_Reset ==
  /\ pc = "sf157"
  /\ \E p \in Pids :
       /\ proc[p] = "unborn"
       /\ \A q \in Pids : q < p => proc[q] # "unborn"
       /\ proc' = [proc EXCEPT ![p] = "running"]
       /\ ffmpeg_proc' = p
       /\ cur' = p
       /\ restoreSeen' = [restoreSeen EXCEPT ![p] = (rpc # "idle")]
  /\ shutting_down' = FALSE
  /\ pc' = "sf158"
  /\ img' = NoImg /\ is_pro' = FALSE /\ args' = NoArgs
  /\ MainStep
  /\ UNCHANGED <<FFMPEG, pi, debian, succeedAt, trialExit, runLimit, termCnt, survived,
                 encIdx, popened, exits, encoder, tries,
                 runs, err, vpResult, failEvents, tasks, monVars, dogVars>>

\* start_ffmpeg: self.ffmpeg_proc = psutil.Popen(...)
start_ffmpeg_popen ==
  /\ pc = "sf157"
  /\ \E p \in Pids :
       /\ proc[p] = "unborn"
       /\ \A q \in Pids : q < p => proc[q] # "unborn"
       /\ proc' = [proc EXCEPT ![p] = "running"]
       /\ ffmpeg_proc' = p
       /\ cur' = p
       /\ restoreSeen' = [restoreSeen EXCEPT ![p] = (rpc # "idle")]
  /\ pc' = "sf158"
  /\ img' = NoImg /\ is_pro' = FALSE /\ args' = NoArgs
  /\ MainStep
  /\ UNCHANGED <<shutting_down, FFMPEG, pi, debian, succeedAt, trialExit, runLimit, termCnt, survived,
                 encIdx, popened, exits, encoder, tries,
                 runs, err, vpResult, failEvents, tasks, monVars, dogVars>>

\* a start_ffmpeg that hands off without the wait of the grace window
start_ffmpeg_nice_SkipWait ==
  /\ pc = "sf158"
  /\ IF ffmpeg_proc = None
       THEN Raise("AttributeError")
       ELSE pc' = "sf169" /\ err' = err
  /\ MainStep
  /\ UNCHANGED <<streamerVars, procVars, probeVars, runs, cur, vpResult, failEvents, tasks,
                 monVars, dogVars>>

\* start_ffmpeg: self.ffmpeg_proc.nice(10). On a process that has already
\* exited psutil either raises NoSuchProcess or succeeds (a zombie).
start_ffmpeg_nice ==
  /\ pc = "sf158"
  /\ IF ffmpeg_proc = None
       THEN Raise("AttributeError")
       ELSE \/ pc' = "sf161" /\ err' = err
            \/ proc[ffmpeg_proc] # "running" /\ Raise("NoSuchProcess")
  /\ MainStep
  /\ UNCHANGED <<streamerVars, procVars, probeVars, runs, cur, vpResult, failEvents, tasks,
                 monVars, dogVars>>

\* start_ffmpeg: the load of self.ffmpeg_proc for wait(timeout=10)
start_ffmpeg_wait_load ==
  /\ pc = "sf161"
  /\ IF ffmpeg_proc = None
       THEN Raise("AttributeError")
       ELSE pc' = "sf161w" /\ err' = err
  /\ MainStep
  /\ UNCHANGED <<streamerVars, procVars, probeVars, runs, cur, vpResult, failEvents, tasks,
                 monVars, dogVars>>

\* a start_ffmpeg that carries on after wait(timeout=10) returned
AfterEarlyExit_CarryOn == "sf169"

\* what start_ffmpeg does when wait(timeout=10) returns an exit status
AfterEarlyExit == "sf162"

\* start_ffmpeg: wait(timeout=10) on the launched process: it returns the
\* exit status if the process has exited, and raises TimeoutExpired if the
\* process is still running when the 10 seconds are over
start_ffmpeg_wait ==
  /\ pc = "sf161w"
  /\ IF proc[cur] # "running"
       THEN /\ pc' = AfterEarlyExit
            /\ survived' = survived
       ELSE /\ pc' = "sf169"
            /\ survived' = [survived EXCEPT ![cur] = TRUE]
  /\ MainStep
  /\ UNCHANGED <<streamerVars, proc, termCnt, restoreSeen, probeVars,
                 runs, cur, err, vpResult, failEvents, tasks, monVars, dogVars>>

\* start_ffmpeg: self.ffmpeg_proc.communicate(), log, raise 'ffmpeg quit!'
start_ffmpeg_quit ==
  /\ pc = "sf162"
  /\ IF ffmpeg_proc = None
       THEN Raise("AttributeError")
       ELSE Raise("ffmpeg_quit")
  /\ MainStep
  /\ UNCHANGED <<streamerVars, procVars, probeVars, runs, cur, vpResult, failEvents, tasks,
                 monVars, dogVars>>

\* start_ffmpeg: cpu_watch_dog(self.ffmpeg_proc, max=80, ...) starts the
\* watchdog thread on the handle loaded here
cpu_watch_dog ==
  /\ pc = "sf169"
  /\ wh' = [wh EXCEPT ![cur] = ffmpeg_proc]
  /\ wpc' = [wpc EXCEPT ![cur] = "w44"]
  /\ tasks' = tasks + 1
  /\ pc' = "sf187"
  /\ MainStep
  /\ UNCHANGED <<streamerVars, procVars, probeVars, runs, cur, err, vpResult, failEvents,
                 monVars, cpu_pct, cpuWarn>>

\* start_ffmpeg: ffmpeg_thread.start(); start_ffmpeg, ffmpeg_from_mjpeg and
\* the try block of video_pipeline are over
start_ffmpeg_monitor ==
  /\ pc = "sf187"
  /\ mpc' = [mpc EXCEPT ![cur] = "m174"]
  /\ tasks' = tasks + 1
  /\ pc' = "vp_ret"
  /\ vpResult' = "returned"
  /\ MainStep
  /\ UNCHANGED <<streamerVars, procVars, probeVars, runs, cur, err, failEvents,
                 mh, meof, ring, hist, reports, dogVars>>

\* a video_pipeline that re-raises instead of posting the event
video_pipeline_except_Reraise ==
  /\ pc = "raised"
  /\ vpResult' = "raised"
  /\ pc' = "vp_ret"
  /\ MainStep
  /\ UNCHANGED <<streamerVars, procVars, probeVars, runs, cur, err, failEvents, tasks,
                 monVars, dogVars>>

\* video_pipeline: except Exception: captureException, post the
\* 'Webcam Streaming Failed' event
video_pipeline_except ==
  /\ pc = "raised"
  /\ failEvents' = failEvents + 1
  /\ vpResult' = "returned"
  /\ pc' = "vp_ret"
  /\ MainStep
  /\ UNCHANGED <<streamerVars, procVars, probeVars, runs, cur, err, tasks, monVars, dogVars>>

\* video_pipeline is back at its caller: its locals are gone
video_pipeline_return ==
  /\ pc = "vp_ret"
  /\ pc' = "idle"
  /\ err' = "" /\ vpResult' = "" /\ failEvents' = 0 /\ cur' = None /\ tasks' = 0
  /\ popened' = <<>> /\ exits' = <<>> /\ encoder' = "" /\ encIdx' = 0 /\ tries' = 0
  /\ img' = NoImg /\ is_pro' = FALSE /\ args' = NoArgs
  /\ MainStep
  /\ UNCHANGED <<streamerVars, procVars, runs, monVars, dogVars>>

\* -------------------------------------------------------------------- restore
\* a restore that does not set the flag
restore_set_flag_NoFlag ==
  /\ rpc = "idle"
  /\ restores < MaxRestores
  /\ restoreSeen' = [p \in Pids |-> restoreSeen[p] \/ proc[p] # "unborn"]
  /\ rpc' = "r195"
  /\ quiet' = (shutting_down /\ ffmpeg_proc = None)
  /\ overlapped' = (overlapped \/ pc # "idle")
  /\ UNCHANGED <<ffmpeg_proc, shutting_down, FFMPEG, pi, debian, succeedAt, trialExit,
                 runLimit, proc, termCnt, survived, probeVars, mainVars, restores, rerr,
                 monVars, dogVars>>

\* restore: self.shutting_down = True
restore_set_flag ==
  /\ rpc = "idle"
  /\ restores < MaxRestores
  /\ shutting_down' = TRUE
  /\ restoreSeen' = [p \in Pids |-> restoreSeen[p] \/ proc[p] # "unborn"]
  /\ rpc' = "r195"
  /\ quiet' = (shutting_down /\ ffmpeg_proc = None)
  /\ overlapped' = (overlapped \/ pc # "idle")
  /\ UNCHANGED <<ffmpeg_proc, FFMPEG, pi, debian, succeedAt, trialExit, runLimit, proc, termCnt,
                 survived, probeVars, mainVars, restores, rerr, monVars, dogVars>>

\* a restore that goes on to release the handle whatever the test finds
restore_test_Release ==
  /\ rpc = "r195"
  /\ rpc' = "r201"
  /\ UNCHANGED <<streamerVars, procVars, probeVars, mainVars, restores, rerr, quiet,
                 overlapped, monVars, dogVars>>

\* restore: if self.ffmpeg_proc:
restore_test ==
  /\ rpc = "r195"
  /\ rpc' = IF ffmpeg_proc # None THEN "r197" ELSE "r201"
  /\ UNCHANGED <<streamerVars, procVars, probeVars, mainVars, restores, rerr, quiet,
                 overlapped, monVars, dogVars>>

\* restore: the try/except around terminate() catches every Exception
ExceptionCaught == TRUE

\* restore: try: self.ffmpeg_proc.terminate() except Exception: pass.
\* terminate() on a process that has exited raises NoSuchProcess.
restore_terminate ==
  /\ rpc = "r197"
  /\ IF ffmpeg_proc = None
       THEN termCnt' = termCnt
       ELSE termCnt' = [termCnt EXCEPT ![ffmpeg_proc] = @ + 1]
  /\ LET raises == ffmpeg_proc = None \/ proc[ffmpeg_proc] # "running" IN
       IF raises /\ ~ExceptionCaught
         THEN rerr' = TRUE /\ rpc' = "idle" /\ quiet' = FALSE
         ELSE rerr' = rerr /\ rpc' = "r201" /\ quiet' = quiet
  /\ UNCHANGED <<streamerVars, proc, survived, restoreSeen, probeVars, mainVars,
                 restores, overlapped, monVars, dogVars>>

\* a restore that keeps the handle
restore_release_Keep ==
  /\ rpc = "r201"
  /\ rpc' = "idle"
  /\ restores' = restores + 1
  /\ quiet' = FALSE
  /\ UNCHANGED <<streamerVars, procVars, probeVars, mainVars, rerr, overlapped, monVars,
                 dogVars>>

\* restore: self.ffmpeg_proc = None, and the return
restore_release ==
  /\ rpc = "r201"
  /\ ffmpeg_proc' = None
  /\ rpc' = "idle"
  /\ restores' = restores + 1
  /\ quiet' = FALSE
  /\ UNCHANGED <<shutting_down, FFMPEG, pi, debian, succeedAt, trialExit, runLimit, procVars, probeVars,
                 mainVars, rerr, overlapped, monVars, dogVars>>

\* ------------------------------------------------------- the encoder process
\* the process exits: because terminate() was requested, or on its own
ProcExit(p) ==
  /\ proc[p] = "running"
  /\ proc' = [proc EXCEPT ![p] = IF termCnt[p] > 0 THEN "terminated" ELSE "crashed"]
  /\ UNCHANGED <<streamerVars, termCnt, survived, restoreSeen, probeVars, mainVars,
                 restoreVars, monVars, dogVars>>

\* ------------------------------------------------- monitor_ffmpeg_process(i)
\* the thread is over: its locals are gone
MonitorEnds(i, how) ==
  /\ mpc' = [mpc EXCEPT ![i] = how]
  /\ mh' = [mh EXCEPT ![i] = None]
  /\ meof' = [meof EXCEPT ![i] = None]
  /\ ring' = [ring EXCEPT ![i] = <<>>]
  /\ hist' = [hist EXCEPT ![i] = <<>>]

\* the load of self.ffmpeg_proc in self.ffmpeg_proc.stderr.readline()
monitor_load(i) ==
  /\ mpc[i] = "m174"
  /\ IF ffmpeg_proc = None
       THEN MonitorEnds(i, "died174")
       ELSE /\ mpc' = [mpc EXCEPT ![i] = "m174r"]
            /\ mh' = [mh EXCEPT ![i] = ffmpeg_proc]
            /\ UNCHANGED <<meof, ring, hist>>
  /\ UNCHANGED <<streamerVars, procVars, probeVars, mainVars, restoreVars, reports, dogVars>>

\* stderr.readline() returns a line of the process: ring_buffer.append(err)
monitor_line(i) ==
  /\ mpc[i] = "m174r"
  /\ proc[mh[i]] = "running"
  /\ Len(hist[i]) < MaxLines
  /\ LET line == <<mh[i], Len(hist[i]) + 1>> IN
       /\ ring' = [ring EXCEPT ![i] = DequeAppend(@, line, ring_maxlen)]
       /\ hist' = [hist EXCEPT ![i] = Append(@, line)]
  /\ mpc' = [mpc EXCEPT ![i] = "m174"]
  /\ UNCHANGED <<streamerVars, procVars, probeVars, mainVars, restoreVars,
                 mh, meof, reports, dogVars>>

\* stderr.readline() returns '' once the process has exited
monitor_eof(i) ==
  /\ mpc[i] = "m174r"
  /\ proc[mh[i]] # "running"
  /\ meof' = [meof EXCEPT ![i] = mh[i]]
  /\ mpc' = [mpc EXCEPT ![i] = "m176"]
  /\ UNCHANGED <<streamerVars, procVars, probeVars, mainVars, restoreVars,
                 mh, ring, hist, reports, dogVars>>

\* if self.shutting_down: return
monitor_check(i) ==
  /\ mpc[i] = "m176"
  /\ IF shutting_down
       THEN MonitorEnds(i, "silent")
       ELSE mpc' = [mpc EXCEPT ![i] = "m179"] /\ UNCHANGED <<mh, meof, ring, hist>>
  /\ UNCHANGED <<streamerVars, procVars, probeVars, mainVars, restoreVars, reports, dogVars>>

\* the load of self.ffmpeg_proc in returncode = self.ffmpeg_proc.wait()
monitor_wait_load(i) ==
  /\ mpc[i] = "m179"
  /\ IF ffmpeg_proc = None
       THEN MonitorEnds(i, "died179")
       ELSE /\ mpc' = [mpc EXCEPT ![i] = "m179w"]
            /\ mh' = [mh EXCEPT ![i] = ffmpeg_proc]
            /\ UNCHANGED <<meof, ring, hist>>
  /\ UNCHANGED <<streamerVars, procVars, probeVars, mainVars, restoreVars, reports, dogVars>>

\* wait() returns; _logger.error of the ring buffer, sentry.captureMessage, return
monitor_report(i) ==
  /\ mpc[i] = "m179w"
  /\ proc[mh[i]] # "running"
  /\ reports' = [reports EXCEPT ![i] =
                   Append(@, [lines |-> ring[i], read |-> hist[i],
                              eof |-> meof[i], waited |-> mh[i]])]
  /\ MonitorEnds(i, "reported")
  /\ UNCHANGED <<streamerVars, procVars, probeVars, mainVars, restoreVars, dogVars>>

\* ------------------------------------------------------- watch_process_cpu(i)
\* the thread is over: its locals are gone
WatchEnds(i, how) ==
  /\ wpc' = [wpc EXCEPT ![i] = how]
  /\ wh' = [wh EXCEPT ![i] = None]
  /\ cpu_pct' = [cpu_pct EXCEPT ![i] = 0]

\* if not watched_process.is_running(): return
watch_is_running(i) ==
  /\ wpc[i] = "w44"
  /\ IF wh[i] = None THEN WatchEnds(i, "died")
     ELSE IF proc[wh[i]] = "running"
       THEN wpc' = [wpc EXCEPT ![i] = "w47"] /\ UNCHANGED <<wh, cpu_pct>>
       ELSE WatchEnds(i, "done")
  /\ UNCHANGED <<streamerVars, procVars, probeVars, mainVars, restoreVars, monVars, cpuWarn>>

\* a watchdog that warns at the threshold already
Excessive_AtLeast(pct) == pct >= cpu_max

\* if cpu_pct > max
Excessive(pct) == pct > cpu_max

\* cpu_pct = watched_process.cpu_percent(); post the warning if cpu_pct > max;
\* time.sleep(interval). On a process that has exited meanwhile psutil either
\* raises NoSuchProcess or returns a sample (a zombie).
watch_sample(i) ==
  /\ wpc[i] = "w47"
  /\ \/ /\ proc[wh[i]] # "running"
        /\ WatchEnds(i, "died")
        /\ cpuWarn' = cpuWarn
     \/ \E pct \in CpuSamples :
          /\ cpu_pct' = [cpu_pct EXCEPT ![i] = pct]
          /\ IF Excessive(pct)
               THEN cpuWarn < MaxCpuWarn /\ cpuWarn' = cpuWarn + 1
               ELSE cpuWarn' = cpuWarn
          /\ wpc' = [wpc EXCEPT ![i] = "w44"]
          /\ wh' = wh
  /\ UNCHANGED <<streamerVars, procVars, probeVars, mainVars, restoreVars, monVars>>

\* ----------------------------------------------------------- specifications
Next ==
  \/ video_pipeline
  \/ set_ffmpeg_if_needed
  \/ h264_encoder_popen
  \/ h264_encoder_wait
  \/ get_webcam_resolution
  \/ check_stream_url
  \/ select_policy
  \/ start_ffmpeg_popen
  \/ start_ffmpeg_nice
  \/ start_ffmpeg_wait_load
  \/ start_ffmpeg_wait
  \/ start_ffmpeg_quit
  \/ cpu_watch_dog
  \/ start_ffmpeg_monitor
  \/ video_pipeline_except
  \/ video_pipeline_return
  \/ restore_set_flag
  \/ restore_test
  \/ restore_terminate
  \/ restore_release
  \/ \E p \in Pids : ProcExit(p)
  \/ \E i \in Pids : monitor_load(i)
  \/ \E i \in Pids : monitor_line(i)
  \/ \E i \in Pids : monitor_eof(i)
  \/ \E i \in Pids : monitor_check(i)
  \/ \E i \in Pids : monitor_wait_load(i)
  \/ \E i \in Pids : monitor_report(i)
  \/ \E i \in Pids : watch_is_running(i)
  \/ \E i \in Pids : watch_sample(i)

Spec == Init /\ [][Next]_vars

\* The supervisor: the pipeline thread, the restore thread, the encoder
\* processes and the output monitors. The CPU watchdogs are started but take
\* no step: they write only wpc and cpuWarn, which nothing else reads. The
\* platform is a Pi on which the second candidate encoder works and the
\* webcam answers the second capture.
InitPlatform ==
  /\ InitStreamer
  /\ InitRest
  /\ pi = TRUE
  /\ debian = "11"
  /\ succeedAt = 2
  /\ trialExit = <<{1}, {0}>>
  /\ pc = "idle"
  /\ img = NoImg /\ is_pro = FALSE /\ args = NoArgs

InitSupervisor ==
  /\ InitPlatform
  /\ runLimit = MaxRuns

\* the same, with the pipeline started once more (a restart)
InitRestart ==
  /\ InitPlatform
  /\ runLimit = MaxRuns + 1

NextSupervisor ==
  \/ video_pipeline
  \/ set_ffmpeg_if_needed
  \/ h264_encoder_popen
  \/ h264_encoder_wait
  \/ get_webcam_resolution
  \/ check_stream_url
  \/ select_policy
  \/ start_ffmpeg_popen
  \/ start_ffmpeg_nice
  \/ start_ffmpeg_wait_load
  \/ start_ffmpeg_wait
  \/ start_ffmpeg_quit
  \/ cpu_watch_dog
  \/ start_ffmpeg_monitor
  \/ video_pipeline_except
  \/ video_pipeline_return
  \/ restore_set_flag
  \/ restore_test
  \/ restore_terminate
  \/ restore_release
  \/ \E p \in Pids : ProcExit(p)
  \/ \E i \in Pids : monitor_load(i)
  \/ \E i \in Pids : monitor_line(i)
  \/ \E i \in Pids : monitor_eof(i)
  \/ \E i \in Pids : monitor_check(i)
  \/ \E i \in Pids : monitor_wait_load(i)
  \/ \E i \in Pids : monitor_report(i)

SpecSupervisor == InitSupervisor /\ [][NextSupervisor]_vars

SpecRestart == InitRestart /\ [][NextSupervisor]_vars

\* The supervisor with its CPU watchdogs: the pipeline thread, the restore
\* thread, the encoder processes and the watchdog threads. The output
\* monitors are started but take no step: a watchdog reads nothing they write.
NextWatchdog ==
  \/ video_pipeline
  \/ set_ffmpeg_if_needed
  \/ h264_encoder_popen
  \/ h264_encoder_wait
  \/ get_webcam_resolution
  \/ check_stream_url
  \/ select_policy
  \/ start_ffmpeg_popen
  \/ start_ffmpeg_nice
  \/ start_ffmpeg_wait_load
  \/ start_ffmpeg_wait
  \/ start_ffmpeg_quit
  \/ cpu_watch_dog
  \/ start_ffmpeg_monitor
  \/ video_pipeline_except
  \/ video_pipeline_return
  \/ restore_set_flag
  \/ restore_test
  \/ restore_terminate
  \/ restore_release
  \/ \E p \in Pids : ProcExit(p)
  \/ \E i \in Pids : watch_is_running(i)
  \/ \E i \in Pids : watch_sample(i)

SpecWatchdog == InitSupervisor /\ [][NextWatchdog]_vars

\* The pipeline thread on its own, for every platform and every behaviour of
\* the collaborators: the probes, the policy and the launch.
NextPipeline ==
  \/ video_pipeline
  \/ set_ffmpeg_if_needed
  \/ h264_encoder_popen
  \/ h264_encoder_wait
  \/ get_webcam_resolution
  \/ check_stream_url
  \/ select_policy
  \/ start_ffmpeg_popen
  \/ start_ffmpeg_nice
  \/ start_ffmpeg_wait_load
  \/ start_ffmpeg_wait
  \/ start_ffmpeg_quit
  \/ cpu_watch_dog
  \/ start_ffmpeg_monitor
  \/ video_pipeline_except
  \/ video_pipeline_return
  \/ \E p \in Pids : ProcExit(p)

SpecPipeline == Init /\ [][NextPipeline]_vars

\* the steps of the thread that calls video_pipeline
MainThread ==
  \/ video_pipeline
  \/ set_ffmpeg_if_needed
  \/ h264_encoder_popen
  \/ h264_encoder_wait
  \/ get_webcam_resolution
  \/ check_stream_url
  \/ select_policy
  \/ start_ffmpeg_popen
  \/ start_ffmpeg_nice
  \/ start_ffmpeg_wait_load
  \/ start_ffmpeg_wait
  \/ start_ffmpeg_quit
  \/ cpu_watch_dog
  \/ start_ffmpeg_monitor
  \/ video_pipeline_except
  \/ video_pipeline_return

\* The pipeline thread under a fair scheduler: the thread takes its next step
\* whenever it has one. A blocking call that never returns leaves it none.
SpecPipelineFair == Init /\ [][NextPipeline]_vars /\ WF_vars(MainThread)

\* The bitrate/framerate policy on its own: ffmpeg_from_mjpeg after both
\* probes have succeeded, for every resolution of Widths x Heights.
InitPolicy ==
  /\ InitStreamer
  /\ proc = [p \in Pids |-> "unborn"]
  /\ termCnt = [p \in Pids |-> 0]
  /\ survived = [p \in Pids |-> FALSE]
  /\ restoreSeen = [p \in Pids |-> FALSE]
  /\ runs = 1 /\ cur = None /\ err = "" /\ vpResult = "" /\ failEvents = 0 /\ tasks = 0
  /\ encIdx = 1 /\ popened = <<Encoders[1]>> /\ exits = <<0>>
  /\ encoder = Encoders[1]
  /\ tries = 1 /\ succeedAt = 1
  /\ rpc = "idle" /\ restores = 0 /\ rerr = FALSE
  /\ quiet = FALSE /\ overlapped = FALSE
  /\ mpc = [p \in Pids |-> "off"]
  /\ mh = [p \in Pids |-> None]
  /\ meof = [p \in Pids |-> None]
  /\ ring = [p \in Pids |-> <<>>]
  /\ hist = [p \in Pids |-> <<>>]
  /\ reports = [p \in Pids |-> <<>>]
  /\ wpc = [p \in Pids |-> "off"]
  /\ wh = [p \in Pids |-> None]
  /\ cpu_pct = [p \in Pids |-> 0]
  /\ cpuWarn = 0
  /\ pi = TRUE /\ debian = "10" /\ trialExit = <<{0}, {0}>> /\ runLimit = MaxRuns
  /\ pc = "fm144"
  /\ img \in Widths \X Heights
  /\ is_pro = FALSE /\ args = NoArgs

NextPolicy == select_policy

SpecPolicy == InitPolicy /\ [][NextPolicy]_vars

\* ------------------------------------------------------------------- claims
Exited(p) == proc[p] \in {"crashed", "terminated"}
MonitorOver(i) == mpc[i] \in {"silent", "reported", "died174", "died179"}
ProbeErrors == {"no_h264_encoder", "stream_url_not_configured"} \cup CaptureErrors
InStartFfmpeg == {"sf158", "sf161", "sf161w", "sf162", "sf169", "sf187"}

\* C1 as stated: when the process launched by start_ffmpeg has exited within
\* the grace window, in the state after the raise self.ffmpeg_proc is None
\* and neither the watchdog nor the monitor has been started.
C1_HandleIsNoneAfterRaise ==
  (pc = "raised" /\ cur # None /\ Exited(cur) /\ ~survived[cur])
    => (ffmpeg_proc = None /\ wpc[cur] = "off" /\ mpc[cur] = "off")

\* C1 amended: when the process launched by start_ffmpeg exits within the
\* grace window, start_ffmpeg raises and starts neither the watchdog nor the
\* monitor; after the raise self.ffmpeg_proc is not reset: it is still the
\* handle of the exited process (None only if a concurrent restore released
\* it), so the supervisor holds no handle of a running process.
C1_StartupFailure ==
  \A p \in Pids :
    (Exited(p) /\ ~survived[p]) =>
      /\ wpc[p] = "off" /\ mpc[p] = "off"
      /\ cur = p => pc \in {"sf158", "sf161", "sf161w", "sf162", "raised", "vp_ret"}
      /\ (cur = p /\ pc = "vp_ret") => (err # "" /\ tasks = 0)
      /\ (cur = p /\ pc = "raised") =>
           (err # "" /\ ffmpeg_proc \in {None, p}
            /\ (ffmpeg_proc # None => proc[ffmpeg_proc] # "running"))

C1_Witness ==
  /\ pc = "raised" /\ err = "ffmpeg_quit"
  /\ cur # None /\ proc[cur] = "crashed" /\ ~survived[cur]
  /\ ffmpeg_proc = cur

\* C2 as stated: at every reachable state at most one encoder process
\* launched by the supervisor is alive.
C2_AtMostOneAlive ==
  Cardinality({p \in Pids : proc[p] = "running"}) <= 1

\* C3: restore raises no error in any state; when it returns shutting_down
\* is True and ffmpeg_proc is None; a call that starts in the state a
\* restore leaves, with no step of the pipeline thread in between, changes
\* nothing; terminate is requested at most once per process.
C3_RestoreIdempotent ==
  [][ /\ ~rerr'
      /\ \A p \in Pids : termCnt'[p] <= 1
      /\ (rpc = "r201" /\ rpc' = "idle") => (shutting_down' /\ ffmpeg_proc' = None)
      /\ (rpc' # rpc /\ (IF rpc = "idle" THEN shutting_down /\ ffmpeg_proc = None
                                         ELSE quiet))
           => RestoreState' = RestoreState ]_vars

C3_Witness ==
  /\ rpc = "r201" /\ quiet /\ restores = 1
  /\ \E p \in Pids : termCnt[p] = 1

\* C4: no UnexpectedExit report is emitted by a monitor whose stderr reached
\* EOF because restore terminated the process, and such a monitor does not
\* get past the test of shutting_down.
C4_StopIsNoCrash ==
  \A i \in Pids :
    /\ \A k \in 1..Len(reports[i]) : proc[reports[i][k].eof] # "terminated"
    /\ mpc[i] \in {"m179", "m179w"} => proc[meof[i]] # "terminated"

C4_Witness ==
  \E i \in Pids : mpc[i] = "silent" /\ proc[i] = "terminated" /\ reports[i] = <<>>

\* C5 as stated: a monitor that has read EOF and found shutting_down unset
\* emits exactly one report and then terminates; the report holds the last
\* min(n, 50) lines read, in order; the window never exceeds 50 lines.
Last(sq, n) == SubSeq(sq, Len(sq) - n + 1, Len(sq))
C5_OneReportOnUnexpectedEof ==
  \A i \in Pids :
    /\ mpc[i] # "died179"
    /\ Len(ring[i]) <= 50
    /\ Len(reports[i]) = IF mpc[i] = "reported" THEN 1 ELSE 0
    /\ \A k \in 1..Len(reports[i]) :
         LET r == reports[i][k]
             n == Len(r.read)
         IN r.lines = Last(r.read, IF n < 50 THEN n ELSE 50)

\* C6 as stated, in the form a finite run refutes: when a process that
\* survived its grace window has exited on its own, with no restore call
\* since its launch, and its monitor thread and every other monitor thread
\* started are over, a report for that process has been emitted.
C6_CrashIsReported ==
  \A p \in Pids :
    (/\ survived[p] /\ proc[p] = "crashed" /\ termCnt[p] = 0 /\ ~restoreSeen[p]
     /\ MonitorOver(p)
     /\ \A i \in Pids : mpc[i] = "off" \/ MonitorOver(i))
      => \E i \in Pids : \E k \in 1..Len(reports[i]) : reports[i][k].eof = p

\* C7: when no candidate encoder works, or the resolution probe runs out of
\* attempts, or stream_url is not configured, that run launches no encoder
\* process and starts no background task, and video_pipeline returns
\* normally after posting exactly one 'Webcam Streaming Failed' event.
NoEncoder == \A k \in 1..Len(Encoders) : 0 \notin trialExit[k]
NoResolution == succeedAt > max_tries
Launched == {p \in Pids : proc[p] # "unborn"}
C7_ProbeFailure ==
  /\ (pi /\ (NoEncoder \/ NoResolution)) =>
       /\ Launched = {} /\ tasks = 0 /\ pc \notin InStartFfmpeg
       /\ pc = "vp_ret" => err \in ProbeErrors
  /\ err \in ProbeErrors =>
       /\ pc \in {"raised", "vp_ret"}
       /\ cur = None /\ tasks = 0 /\ Cardinality(Launched) < runs
  /\ pc = "raised" => (failEvents = 0 /\ vpResult = "")
  /\ (pc = "vp_ret" /\ err \in ProbeErrors) => (vpResult = "returned" /\ failEvents = 1)

C7_Witness ==
  /\ pc = "vp_ret" /\ err \in CaptureErrors
  /\ vpResult = "returned" /\ failEvents = 1 /\ Launched = {}

\* C8: the trials are launched in the order h264_omx, h264_v4l2m2m; the probe
\* returns the first candidate whose trial exits with 0, launches no trial
\* after it, and raises exactly when every trial has exited non-zero.
C8_EncoderProbe ==
  /\ Encoders = <<"h264_omx", "h264_v4l2m2m">>
  /\ Len(popened) <= Len(Encoders)
  /\ popened = SubSeq(Encoders, 1, Len(popened))
  /\ Len(exits) <= Len(popened) /\ Len(popened) <= Len(exits) + 1
  /\ \A k \in 1..Len(exits) : exits[k] = 0 => k = Len(popened)
  /\ encoder # "" <=> (\E k \in 1..Len(exits) : exits[k] = 0)
  /\ encoder # "" => encoder = popened[Len(popened)]
  /\ err = "no_h264_encoder" <=>
       (Len(exits) = Len(Encoders) /\ \A k \in 1..Len(exits) : exits[k] # 0)

C8_Witness ==
  /\ popened = Encoders /\ exits = <<1, 0>> /\ encoder = "h264_v4l2m2m"

\* C9: the resolution probe makes at most 20 attempts; it returns the sample
\* of attempt N after exactly N attempts when the capture first succeeds on
\* attempt N <= 20, and raises after exactly 20 attempts when it never does.
C9_ResolutionProbe ==
  /\ tries <= 20
  /\ pc \in {"fm138", "fm144", "sf157"} =>
       (tries = succeedAt /\ succeedAt <= 20 /\ img \in ImgInfos \cup (Widths \X Heights))
  /\ err \in CaptureErrors => (tries = 20 /\ succeedAt > 20)
  /\ (pi /\ succeedAt > 20) => pc \notin {"fm138", "fm144", "sf157"} \cup InStartFfmpeg
  /\ succeedAt <= 20 => err \notin CaptureErrors

C9_Witness ==
  pc = "fm138" /\ tries = 20 /\ succeedAt = 20 /\ img \in ImgInfos

\* C10: fps and bitrate equal the reference table on the pixel area, with
\* framerate 25 for the full tier and framerate 5 and a quarter of the
\* bitrate for the restricted tier.
RefBitrate(A) ==
  CASE A <= 129600 -> 400000
    [] A > 129600 /\ A <= 518400 -> 1300000
    [] A > 518400 /\ A <= 921600 -> 2000000
    [] A > 921600 -> 3000000
C10_Policy ==
  pc = "sf157" =>
    /\ args.fps = (IF is_pro THEN 25 ELSE 5)
    /\ args.bitrate = (IF is_pro THEN RefBitrate(img[1] * img[2])
                                 ELSE RefBitrate(img[1] * img[2]) \div 4)
    /\ args.bitrate > 0 /\ args.fps \in {5, 25}
    /\ (img = <<1640, 1232>> /\ ~is_pro) => args = [fps |-> 5, bitrate |-> 750000]
    /\ (img = <<960, 540>> /\ is_pro) => args = [fps |-> 25, bitrate |-> 1300000]

C10_Witness ==
  pc = "sf157" /\ img = <<1640, 1232>> /\ ~is_pro /\ args.bitrate = 750000

\* C11: for pixel areas A1 <= A2 the bitrate selected for A1 is at most the
\* bitrate selected for A2, in both tiers; and for every resolution the
\* restricted-tier bitrate is the full-tier bitrate integer-divided by 4.
C11_MonotoneQuarter ==
  pc = "sf157" =>
    /\ \A w \in Widths, h \in Heights :
         /\ w * h <= img[1] * img[2] => StreamArgs(w, h, is_pro).bitrate <= args.bitrate
         /\ w * h >= img[1] * img[2] => StreamArgs(w, h, is_pro).bitrate >= args.bitrate
    /\ ~is_pro => args.bitrate = StreamArgs(img[1], img[2], TRUE).bitrate \div 4
    /\ is_pro => StreamArgs(img[1], img[2], FALSE).bitrate = args.bitrate \div 4

C11_Witness ==
  pc = "sf157" /\ ~is_pro /\ img = <<961, 540>> /\ args.bitrate = 500000

\* C12: the CPU watchdog only observes. A sampling round posts exactly one
\* warning event when the sample is strictly greater than 80 and none
\* otherwise; a round in which the watchdog finds the process not running,
\* or in which it gets no sample, posts none; and no step of the watchdog
\* changes a process, a request to terminate one, self.ffmpeg_proc or
\* self.shutting_down.
C12_WatchdogObserves ==
  [][ \A i \in Pids :
        /\ (wpc[i] = "w47" /\ wpc'[i] = "w44") =>
             cpuWarn' = cpuWarn + (IF cpu_pct'[i] > 80 THEN 1 ELSE 0)
        /\ (wpc[i] = "w47" /\ wpc'[i] = "died") => cpuWarn' = cpuWarn
        /\ (wpc[i] = "w44" /\ wpc'[i] # "w44") => cpuWarn' = cpuWarn
        /\ (wpc[i] \in {"w44", "w47"} /\ wpc'[i] # wpc[i]) =>
             /\ proc' = proc /\ termCnt' = termCnt
             /\ ffmpeg_proc' = ffmpeg_proc /\ shutting_down' = shutting_down
             /\ reports' = reports /\ failEvents' = failEvents ]_vars

C12_Witness ==
  \E i \in Pids : wpc[i] = "w44" /\ cpu_pct[i] = 81 /\ cpuWarn = 1 /\ proc[i] = "running"

\* C13: on unsupported hardware video_pipeline returns without raising and
\* does nothing: no trial encode, no capture, no process launched, no
\* background task, no notification event, and ffmpeg_proc, shutting_down
\* and FFMPEG are as at construction.
C13_UnsupportedNoAction ==
  ~pi =>
    /\ pc \in {"idle", "vp_ret"}
    /\ pc = "vp_ret" => vpResult = "returned"
    /\ err = "" /\ failEvents = 0 /\ tasks = 0 /\ cpuWarn = 0
    /\ popened = <<>> /\ exits = <<>> /\ encoder = "" /\ tries = 0
    /\ Launched = {} /\ cur = None
    /\ \A i \in Pids : mpc[i] = "off" /\ wpc[i] = "off" /\ reports[i] = <<>>
    /\ ffmpeg_proc = None /\ shutting_down = FALSE /\ FFMPEG = "ffmpeg"

C13_Witness ==
  ~pi /\ pc = "vp_ret" /\ vpResult = "returned" /\ runs = 1 /\ ffmpeg_proc = None

\* C14: in every execution of restore, shutting_down is set before
\* termination is requested and the handle is released only after the
\* request: a request is made only at line 197 with the flag already set, a
\* call that finds a handle at line 195 goes on to request its termination,
\* the handle is set to None only by the last step of the call, and no step
\* of a call follows that one.
C14_FlagTerminateRelease ==
  [][ /\ rpc' # "idle" => shutting_down'
      /\ termCnt' # termCnt => (shutting_down /\ rpc = "r197" /\ rpc' = "r201")
      /\ (rpc = "r195" /\ ffmpeg_proc # None /\ rpc' # rpc) => rpc' = "r197"
      /\ (rpc = "r197" /\ rpc' # rpc /\ ffmpeg_proc # None) =>
           termCnt'[ffmpeg_proc] = termCnt[ffmpeg_proc] + 1
      /\ (ffmpeg_proc # None /\ ffmpeg_proc' = None) =>
           (rpc = "r201" /\ rpc' = "idle" /\ shutting_down)
      /\ (rpc = "r201" /\ rpc' # rpc) => (rpc' = "idle" /\ termCnt' = termCnt) ]_vars

C14_Witness ==
  /\ rpc = "r201" /\ shutting_down
  /\ ffmpeg_proc # None /\ termCnt[ffmpeg_proc] = 1 /\ proc[ffmpeg_proc] = "running"

\* C15: in every run of the pipeline the encoder probe completes before the
\* resolution probe starts, both have completed before the streaming
\* process is launched, the watchdog is started only after wait(timeout=10)
\* has timed out on the running process and the monitor only after the
\* watchdog; no background task exists for a process that has not survived
\* its grace window.
BeforeLaunch == {"fm131", "enc126", "enc127", "res114", "fm138", "fm144", "sf157"}
C15_PipelineOrder ==
  /\ pc \in {"fm131", "enc126", "enc127"} => (tries = 0 /\ encoder = "")
  /\ pc = "res114" => (encoder # "" /\ tries < succeedAt)
  /\ pc \in ({"fm138", "fm144", "sf157"} \cup InStartFfmpeg) =>
       (encoder # "" /\ tries = succeedAt /\ tries >= 1)
  /\ pc \in BeforeLaunch => (cur = None /\ tasks = 0)
  /\ pc \in InStartFfmpeg => (cur # None /\ proc[cur] # "unborn")
  /\ pc \in {"sf158", "sf161", "sf161w", "sf162"} =>
       (~survived[cur] /\ tasks = 0 /\ wpc[cur] = "off" /\ mpc[cur] = "off")
  /\ pc = "sf169" => (survived[cur] /\ tasks = 0)
  /\ pc = "sf187" => (survived[cur] /\ tasks = 1 /\ wpc[cur] # "off" /\ mpc[cur] = "off")
  /\ tasks > 0 => (cur # None /\ survived[cur] /\ err = "")
  /\ \A p \in Pids :
       /\ survived[p] => proc[p] # "unborn"
       /\ wpc[p] # "off" => survived[p]
       /\ mpc[p] # "off" => (survived[p] /\ wpc[p] # "off")

C15_Witness ==
  /\ pc = "vp_ret" /\ tasks = 2 /\ cur # None /\ survived[cur]
  /\ encoder = "h264_v4l2m2m" /\ tries = succeedAt
  /\ wpc[cur] # "off" /\ mpc[cur] # "off"

\* C16: shutting_down is False at construction; only the first statement of
\* restore changes it, from False to True; once True it stays True, through
\* every step of video_pipeline, ffmpeg_from_mjpeg, start_ffmpeg, the
\* monitors and the watchdogs; so it changes at most once.
C16_FlagSetOnce ==
  /\ shutting_down = FALSE
  /\ [][ /\ shutting_down => shutting_down'
         /\ shutting_down' # shutting_down =>
              (~shutting_down /\ shutting_down' /\ rpc = "idle" /\ rpc' = "r195")
         /\ (rpc = "idle" /\ rpc' = "r195") => shutting_down' ]_vars

C16_Witness ==
  /\ shutting_down /\ restores = 2 /\ rpc = "idle"
  /\ pc = "sf187" /\ proc[cur] = "running"

\* C17 as stated: the encoder probe always terminates: once the first trial
\* encode is about to be launched, the probe eventually returns an encoder
\* or raises, whatever the trial processes do.
C17_ProbeTerminates ==
  (pc = "enc126") ~> (pc \in {"res114", "raised"})

\* C18 as stated, in the form a finite run refutes: for a process that
\* survived its grace window and then either exited on its own or was asked
\* to terminate by a restore that has returned, neither background task has
\* ended in any way but by its return statement.
C18_TasksEndNormally ==
  \A i \in Pids :
    (survived[i] /\ (proc[i] = "crashed" \/ (termCnt[i] > 0 /\ restores > 0)))
      => (mpc[i] \notin {"died174", "died179"} /\ wpc[i] # "died")

\* C19 as stated: no thread dereferences self.ffmpeg_proc while it is None:
\* not the monitor at stderr.readline() and wait(), not start_ffmpeg at
\* nice(), wait(timeout=10) and communicate(), and the handle handed to
\* cpu_watch_dog is not None.
C19_NoNoneDereference ==
  /\ err # "AttributeError"
  /\ \A i \in Pids :
       /\ mpc[i] \notin {"died174", "died179"}
       /\ wpc[i] = "w44" => wh[i] # None

\* C20 as stated: when a restore() call that began while video_pipeline()
\* was executing and that video_pipeline() call have both returned, every
\* process the supervisor launched has exited or has been asked to
\* terminate.
C20_NoOrphan ==
  (overlapped /\ pc = "idle" /\ rpc = "idle") =>
    \A p \in Pids : proc[p] = "running" => termCnt[p] > 0

====
